---- MODULE Spec2Model ----
(***************************************************************************)
(* Acquisition lifecycle of listenarr: the REST handlers for downloads     *)
(* (internal/api/downloads.go), the download service (package download:   *)
(* StartDownload, UpdateDownloadStatus, MonitorDownloads,                  *)
(* triggerProcessing, CancelDownload) and the rows they                    *)
(* read and write (library_items, downloads, processing_tasks), the        *)
(* library and processing handlers, and the API-key middleware in front   *)
(* of the /api/v1 routes.                                                  *)
(*                                                                         *)
(* Every database call (First, Where..First, Find, Create, Save) is one    *)
(* atomic step; a handler is a sequence of such steps over local copies of *)
(* the rows it read, so handlers and poll cycles interleave between calls. *)
(* The qBittorrent daemon is an external collaborator: every call to it    *)
(* may succeed or fail, and a successful status query may answer any       *)
(* TorrentInfo.                                                            *)
(***************************************************************************)
EXTENDS Integers, Sequences, FiniteSets, TLC

VARIABLES config, libraryItems, downloads, tasks, req, mon

vars == <<config, libraryItems, downloads, tasks, req, mon>>

----------------------------------------------------------------------------
(* Bounds *)

MaxDownloads == 2                      \* rows the downloads table may hold
MaxInFlight == 2                       \* operations that may overlap
MaxLibraryItems == 4                   \* rows the library_items table may hold

LibraryItemIDs == {1, 2}               \* the works in the library
ItemInputs == LibraryItemIDs \cup {3}  \* 3 names no library item
ContendedWorks == {1}                  \* the work overlapping operations contend for
Threads == {"r1", "r2"}                \* concurrent callers (HTTP requests, service calls)
Pollers == {"m1", "m2"}                \* concurrent MonitorDownloads runs
BookIDs == {1, 2, 3}                   \* the books a request may resolve to

----------------------------------------------------------------------------
(* Rows *)

\* models.Release rows; the releases table is read-only here.
Releases ==
    << [ID |-> 1, MagnetURL |-> "magnet:1", TorrentURL |-> "http://t/1"],
       [ID |-> 2, MagnetURL |-> "",         TorrentURL |-> ""] >>

ReleaseInputs == 1 .. (Len(Releases) + 1)   \* the last id names no release
ContendedReleases == {1}                    \* the release overlapping requests ask for

ReleaseExists(id) == id \in DOMAIN Releases

\* models.LibraryItem{BookID: book.ID, Status: wanted}; item i of a seeded
\* library is the item of book i
NewLibraryItem(id) ==
    [ID |-> id, BookID |-> id, Status |-> "wanted", FilePath |-> "",
     CompletedDate |-> "nil", DeletedAt |-> "nil"]

NoItem == [NewLibraryItem(0) EXCEPT !.Status = ""]

\* models.Download
NewDownload(id, libraryItemID, releaseID) ==
    [ID |-> id, LibraryItemID |-> libraryItemID, ReleaseID |-> releaseID,
     Status |-> "queued", Progress |-> 0, Speed |-> 0, Size |-> 0, Downloaded |-> 0,
     Error |-> "", QBittorrentHash |-> "", DownloadPath |-> "", CompletedAt |-> "nil"]

NoDownload == [NewDownload(0, 0, 0) EXCEPT !.Status = ""]

\* models.ProcessingTask
NewTask(id, download) ==
    [ID |-> id, DownloadID |-> download.ID, Status |-> "pending",
     InputPath |-> download.DownloadPath, OutputPath |-> "",
     Progress |-> 0, Error |-> "", StartedAt |-> "nil", CompletedAt |-> "nil"]

NoTask == [NewTask(0, [ID |-> 0, DownloadPath |-> ""]) EXCEPT !.Status = ""]

\* qbit.TorrentInfo as answered by the daemon.  Progress is the daemon's
\* 0-1 fraction counted in tenths.
DaemonStates ==
    {"downloading", "stalledDL", "queuedDL", "uploading", "stalledUP", "queuedUP",
     "error", "pausedDL", "pausedUP", "missingFiles",
     "checkingDL", "metaDL", "moving"}

TorrentProgress == {4, 10}

ContentPaths == {"/downloads/book"}

\* the torrents are of one size; the bytes downloaded follow from the
\* progress, and a torrent that is not finished is answered with a speed
TorrentSize == 10

DownloadedAt(progress) == (progress * TorrentSize) \div 10

DownloadSpeedAt(progress) == IF progress = 10 THEN 0 ELSE 5

TorrentInfos ==
    {[State |-> state, Progress |-> progress, ContentPath |-> contentPath,
      DownloadSpeed |-> DownloadSpeedAt(progress), Size |-> TorrentSize,
      Downloaded |-> DownloadedAt(progress)] :
        state \in DaemonStates, progress \in TorrentProgress, contentPath \in ContentPaths}

NoTorrent ==
    [State |-> "", Progress |-> 0, ContentPath |-> "",
     DownloadSpeed |-> 0, Size |-> 0, Downloaded |-> 0]

\* one daemon state of each kind the status switch tells apart
ContendedAnswers ==
    {ti \in TorrentInfos :
        ti.State \in {"downloading", "uploading", "error", "pausedDL", "checkingDL"}}

----------------------------------------------------------------------------
(* Queries and writes on the store *)

\* db.Where("status IN ?", {queued, downloading})
IsActive(d) == d.Status \in {"queued", "downloading"}

\* db.Where("library_item_id = ? AND status IN ?", id, {queued, downloading}).First
HasActiveDownload(libraryItemID) ==
    \E k \in DOMAIN downloads :
        downloads[k].LibraryItemID = libraryItemID /\ IsActive(downloads[k])

\* the query without its condition on download_id
ExistingTask_AnyTask(downloadID) ==
    tasks # <<>>

\* db.Where("download_id = ?", id).First(&existingTask) finds a row
ExistingTask(downloadID) ==
    \E k \in DOMAIN tasks : tasks[k].DownloadID = downloadID

\* db.Save(&download): writes every column of the copy into the row of its key
SaveDownload(d) == [downloads EXCEPT ![d.ID] = d]

\* db.Save(&libraryItem)
SaveItem(li) == [libraryItems EXCEPT ![li.ID] = li]

\* the lookup that also finds soft-deleted rows (an Unscoped query)
ItemExists_Unscoped(id) == id \in DOMAIN libraryItems

\* db.First(&libraryItem, id) succeeds: the row exists and is not soft-deleted
ItemExists(id) == id \in DOMAIN libraryItems /\ libraryItems[id].DeletedAt = "nil"

\* "if err := db.First(&libraryItem, id).Error; err == nil { libraryItem.Status = s; db.Save }"
SetItemStatus(id, s) ==
    IF ItemExists(id)
    THEN SaveItem([libraryItems[id] EXCEPT !.Status = s])
    ELSE libraryItems

----------------------------------------------------------------------------
(* Local state of callers and of poll cycles *)

IdleReq ==
    [op |-> "none", pc |-> "idle", route |-> [Method |-> "", Path |-> ""], header |-> "", query |-> "",
     LibraryItemID |-> 0, ReleaseID |-> 0, BookID |-> 0,
     download |-> NoDownload, libraryItem |-> NoItem, task |-> NoTask,
     torrentURL |-> "", deleteErr |-> "nil", result |-> ""]

\* the call has returned: only its arguments, the keys of the download and of
\* the task it concerned and its answer are kept
Done(r, d, res) ==
    [IdleReq EXCEPT !.op = r.op, !.pc = "done",
                    !.LibraryItemID = r.LibraryItemID, !.ReleaseID = r.ReleaseID,
                    !.BookID = r.BookID,
                    !.download = [NoDownload EXCEPT !.ID = d.ID],
                    !.task = [NoTask EXCEPT !.ID = r.task.ID], !.result = res]

IdleMon == [pc |-> "idle", downloads |-> <<>>, i |-> 0, torrent |-> NoTorrent]

InFlight ==
    {t \in Threads : req[t].pc # "idle"} \cup {p \in Pollers : mon[p].pc # "idle"}

\* callers (poll cycles) are interchangeable: a new operation takes the first
\* free one in the order of their names
Free(procs) ==
    LET free == procs \ InFlight
    IN  IF free = {} THEN {}
        ELSE IF "r1" \in free THEN {"r1"}
        ELSE IF "m1" \in free THEN {"m1"}
        ELSE free

\* the callers (poll cycles) that may start while at most limit operations overlap
Admitted(procs, limit) ==
    IF Cardinality(InFlight) < limit THEN Free(procs) ELSE {}

----------------------------------------------------------------------------
(* Initial stores.  NewService and NewServer take an existing database.    *)
(* Download.QBittorrentHash is a persisted column that no operation        *)
(* writes, so a store either holds no download or already holds tracked    *)
(* downloads (one per chosen work, queued, the work downloading).          *)

Hashes == [i \in LibraryItemIDs |-> IF i = 1 THEN "hashA" ELSE "hashB"]

RECURSIVE TrackedDownloads(_, _)
TrackedDownloads(S, n) ==
    IF S = {} THEN <<>>
    ELSE LET i == CHOOSE x \in S : \A y \in S : x <= y
         IN  <<[NewDownload(n, i, 1) EXCEPT !.QBittorrentHash = Hashes[i]]>>
             \o TrackedDownloads(S \ {i}, n + 1)

\* a download the poll loop has seen complete
CompletedDownload(id, i) ==
    [NewDownload(id, i, 1) EXCEPT !.QBittorrentHash = Hashes[i],
                                  !.Status = "completed", !.Progress = 100,
                                  !.Size = TorrentSize, !.Downloaded = TorrentSize,
                                  !.DownloadPath = "/downloads/book",
                                  !.CompletedAt = "set"]

ProcessingStatuses == {"pending", "processing", "completed", "failed"}

\* a processing_tasks row in each value of its status column, as the rows
\* the processing handlers are given (pending as triggerProcessing creates it)
TaskInStatus(id, download, status) ==
    [NewTask(id, download) EXCEPT
        !.Status = status,
        !.Progress = CASE status = "pending"   -> 0
                       [] status = "completed" -> 100
                       [] OTHER                -> 50,
        !.Error = IF status = "failed" THEN "Processing failed" ELSE "",
        !.OutputPath = IF status = "completed" THEN "/library/book.m4b" ELSE "",
        !.StartedAt = IF status = "pending" THEN "nil" ELSE "set",
        !.CompletedAt = IF status \in {"completed", "failed"} THEN "set" ELSE "nil"]

\* a store in which work 1 has been handed to processing: its download is
\* completed and has one task; work 2 is wanted or has a tracked download
InitTasks ==
    /\ \E status \in ProcessingStatuses, S \in SUBSET (LibraryItemIDs \ {1}) :
          /\ downloads = <<CompletedDownload(1, 1)>> \o TrackedDownloads(S, 2)
          /\ tasks = <<TaskInStatus(1, CompletedDownload(1, 1), status)>>
          /\ libraryItems = [i \in LibraryItemIDs |->
                               [NewLibraryItem(i) EXCEPT !.Status =
                                   IF i = 1 THEN "processing"
                                   ELSE IF i \in S THEN "downloading" ELSE "wanted"]]
    /\ req = [t \in Threads |-> IdleReq]
    /\ mon = [p \in Pollers |-> IdleMon]

InitOn(works) ==
    /\ \E S \in SUBSET works :
          /\ Cardinality(S) <= MaxDownloads
          /\ downloads = TrackedDownloads(S, 1)
          /\ libraryItems = [i \in LibraryItemIDs |->
                               IF i \in S
                               THEN [NewLibraryItem(i) EXCEPT !.Status = "downloading"]
                               ELSE NewLibraryItem(i)]
    /\ tasks = <<>>
    /\ req = [t \in Threads |-> IdleReq]
    /\ mon = [p \in Pollers |-> IdleMon]

----------------------------------------------------------------------------
(* POST /api/v1/downloads: Server.startDownload *)

\* the handler up to its first answer or write: db.First(&libraryItem),
\* db.First(&release)
startDownload(libraryItemID, releaseID) ==
    LET r == [IdleReq EXCEPT !.op = "apiStart",
                             !.LibraryItemID = libraryItemID,
                             !.ReleaseID = releaseID]
    IN  IF ~ItemExists(libraryItemID) \/ ~ReleaseExists(releaseID)
        THEN Done(r, NoDownload, "NotFound")
        ELSE [r EXCEPT !.pc = "check",
                       !.libraryItem = libraryItems[libraryItemID]]

\* the handler is entered
ApiStartBegin(t, libraryItemID, releaseID, limit) ==
    /\ t \in Admitted(Threads, limit)
    /\ req' = [req EXCEPT ![t] = startDownload(libraryItemID, releaseID)]
    /\ UNCHANGED <<config, libraryItems, downloads, tasks, mon>>

\* "Check if there's already an active download for this library item"
ApiStartCheck(t) ==
    /\ req[t].op = "apiStart" /\ req[t].pc = "check"
    /\ req' = [req EXCEPT ![t] =
                IF HasActiveDownload(req[t].LibraryItemID)
                THEN Done(req[t], NoDownload, "Conflict")
                ELSE [req[t] EXCEPT !.pc = "create"]]
    /\ UNCHANGED <<config, libraryItems, downloads, tasks, mon>>

\* db.Create(&download)
ApiStartCreate(t) ==
    /\ req[t].op = "apiStart" /\ req[t].pc = "create"
    /\ Len(downloads) < MaxDownloads
    /\ LET d == NewDownload(Len(downloads) + 1, req[t].LibraryItemID, req[t].ReleaseID)
       IN  /\ downloads' = Append(downloads, d)
           /\ req' = [req EXCEPT ![t] = [req[t] EXCEPT !.pc = "saveItem", !.download = d]]
    /\ UNCHANGED <<config, libraryItems, tasks, mon>>

\* libraryItem.Status = downloading; db.Save(&libraryItem); reload; 201 Created
ApiStartSaveItem(t) ==
    /\ req[t].op = "apiStart" /\ req[t].pc = "saveItem"
    /\ libraryItems' = SaveItem([req[t].libraryItem EXCEPT !.Status = "downloading"])
    /\ req' = [req EXCEPT ![t] = Done(req[t], downloads[req[t].download.ID], "Created")]
    /\ UNCHANGED <<config, downloads, tasks, mon>>

----------------------------------------------------------------------------
(* DELETE /api/v1/downloads/:id: Server.cancelDownload *)

\* the handler up to its first answer or write: db.First(&download, id);
\* "Only allow canceling queued or downloading status"
cancelDownload(downloadID) ==
    LET r == [IdleReq EXCEPT !.op = "apiCancel"]
    IN  IF downloadID \notin DOMAIN downloads
        THEN Done(r, NoDownload, "NotFound")
        ELSE IF ~IsActive(downloads[downloadID])
        THEN Done(r, downloads[downloadID], "BadRequest")
        ELSE [r EXCEPT !.pc = "saveDownload",
                       !.LibraryItemID = downloads[downloadID].LibraryItemID,
                       !.download = downloads[downloadID]]

\* the handler is entered
ApiCancelBegin(t, downloadID, limit) ==
    /\ t \in Admitted(Threads, limit)
    /\ req' = [req EXCEPT ![t] = cancelDownload(downloadID)]
    /\ UNCHANGED <<config, libraryItems, downloads, tasks, mon>>

\* download.Status = failed; download.Error = ...; db.Save(&download)
ApiCancelSaveDownload(t) ==
    /\ req[t].op = "apiCancel" /\ req[t].pc = "saveDownload"
    /\ LET d == [req[t].download EXCEPT !.Status = "failed",
                                        !.Error = "Download cancelled by user"]
       IN  /\ downloads' = SaveDownload(d)
           /\ req' = [req EXCEPT ![t] = [req[t] EXCEPT !.pc = "saveItem", !.download = d]]
    /\ UNCHANGED <<config, libraryItems, tasks, mon>>

\* library item back to wanted; 204 No Content
ApiCancelSaveItem(t) ==
    /\ req[t].op = "apiCancel" /\ req[t].pc = "saveItem"
    /\ libraryItems' = SetItemStatus(req[t].download.LibraryItemID, "wanted")
    /\ req' = [req EXCEPT ![t] = Done(req[t], req[t].download, "NoContent")]
    /\ UNCHANGED <<config, downloads, tasks, mon>>

----------------------------------------------------------------------------
(* POST /api/v1/processing/:id/retry: Server.retryProcessingTask *)

\* db.Save(&task)
SaveTask(task) == [tasks EXCEPT ![task.ID] = task]

\* the reset that leaves Progress as it was
ResetTask_KeepProgress(task) ==
    [task EXCEPT !.Status = "pending", !.Error = "",
                 !.StartedAt = "nil", !.CompletedAt = "nil"]

\* "Reset task to pending"
ResetTask(task) ==
    [task EXCEPT !.Status = "pending", !.Progress = 0, !.Error = "",
                 !.StartedAt = "nil", !.CompletedAt = "nil"]

\* the check that also lets a task that is being processed through
RetryAllowed_NotPending(task) == task.Status \notin {"pending", "completed"}

\* "Only allow retrying failed tasks"
RetryAllowed(task) == task.Status = "failed"

\* the handler up to its first answer or write: db.First(&task, id) and the
\* status check
retryProcessingTask(taskID) ==
    LET r == [IdleReq EXCEPT !.op = "apiRetry",
                             !.task = IF taskID \in DOMAIN tasks
                                      THEN tasks[taskID] ELSE NoTask]
    IN  IF taskID \notin DOMAIN tasks
        THEN Done(r, NoDownload, "NotFound")
        ELSE IF ~RetryAllowed(tasks[taskID])
        THEN Done(r, NoDownload, "BadRequest")
        ELSE [r EXCEPT !.pc = "saveTask"]

\* the handler is entered
ApiRetryBegin(t, taskID, limit) ==
    /\ t \in Admitted(Threads, limit)
    /\ req' = [req EXCEPT ![t] = retryProcessingTask(taskID)]
    /\ UNCHANGED <<config, libraryItems, downloads, tasks, mon>>

\* the copy is reset and saved; 200 OK
ApiRetrySave(t) ==
    /\ req[t].op = "apiRetry" /\ req[t].pc = "saveTask"
    /\ tasks' = SaveTask(ResetTask(req[t].task))
    /\ req' = [req EXCEPT ![t] = Done(req[t], NoDownload, "OK")]
    /\ UNCHANGED <<config, libraryItems, downloads, mon>>

----------------------------------------------------------------------------
(* POST /api/v1/library: Server.addToLibrary; the request is named by the  *)
(* book its author/title/ISBN/ASIN resolve to (found or created in the     *)
(* same transaction).                                                      *)

\* the query on the wrong column (id instead of book_id)
ExistingItem_ByID(bookID) ==
    \E k \in DOMAIN libraryItems :
        libraryItems[k].ID = bookID /\ libraryItems[k].DeletedAt = "nil"

\* tx.Where("book_id = ?", book.ID).First(&existingItem) finds a row; the
\* query of a model with DeletedAt skips soft-deleted rows
ExistingItem(bookID) ==
    \E k \in DOMAIN libraryItems :
        libraryItems[k].BookID = bookID /\ libraryItems[k].DeletedAt = "nil"

\* the transaction: check for an item of the book, tx.Create(&libraryItem),
\* tx.Commit()
AddToLibraryTx(t, bookID, limit) ==
    /\ t \in Admitted(Threads, limit)
    /\ LET r == [IdleReq EXCEPT !.op = "addToLibrary", !.BookID = bookID]
       IN  IF ExistingItem(bookID)
           THEN /\ req' = [req EXCEPT ![t] = Done(r, NoDownload, "Conflict")]
                /\ UNCHANGED libraryItems
           ELSE /\ Len(libraryItems) < MaxLibraryItems
                /\ LET id == Len(libraryItems) + 1
                   IN  /\ libraryItems' =
                              Append(libraryItems, [NewLibraryItem(id) EXCEPT !.BookID = bookID])
                       /\ req' = [req EXCEPT ![t] =
                                    [r EXCEPT !.pc = "reload", !.LibraryItemID = id]]
    /\ UNCHANGED <<config, downloads, tasks, mon>>

\* the transaction fails (tx.Create or tx.Commit returns an error): rollback, 500
AddToLibraryTxFails(t, bookID, limit) ==
    /\ t \in Admitted(Threads, limit)
    /\ ~ExistingItem(bookID)
    /\ req' = [req EXCEPT ![t] =
                 Done([IdleReq EXCEPT !.op = "addToLibrary", !.BookID = bookID],
                      NoDownload, "InternalError")]
    /\ UNCHANGED <<config, libraryItems, downloads, tasks, mon>>

\* "Reload with relationships": db.First(&libraryItem, libraryItem.ID); 201 Created
AddToLibraryReload(t) ==
    /\ req[t].op = "addToLibrary" /\ req[t].pc = "reload"
    /\ req' = [req EXCEPT ![t] =
                 Done(req[t], NoDownload,
                      IF ItemExists(req[t].LibraryItemID) THEN "Created" ELSE "InternalError")]
    /\ UNCHANGED <<config, libraryItems, downloads, tasks, mon>>

----------------------------------------------------------------------------
(* DELETE /api/v1/library/:id: Server.removeFromLibrary *)

\* "Check if item exists": db.First(&item, id)
RemoveFromLibraryBegin(t, libraryItemID, limit) ==
    /\ t \in Admitted(Threads, limit)
    /\ LET r == [IdleReq EXCEPT !.op = "removeFromLibrary",
                                !.LibraryItemID = libraryItemID]
       IN  req' = [req EXCEPT ![t] =
                IF ~ItemExists(libraryItemID)
                THEN Done(r, NoDownload, "NotFound")
                ELSE [r EXCEPT !.pc = "delete"]]
    /\ UNCHANGED <<config, libraryItems, downloads, tasks, mon>>

\* db.Delete(&item): "Soft delete", the row gets its DeletedAt; 204 No Content
RemoveFromLibraryDelete(t) ==
    /\ req[t].op = "removeFromLibrary" /\ req[t].pc = "delete"
    /\ libraryItems' = [libraryItems EXCEPT ![req[t].LibraryItemID].DeletedAt = "set"]
    /\ req' = [req EXCEPT ![t] = Done(req[t], NoDownload, "NoContent")]
    /\ UNCHANGED <<config, downloads, tasks, mon>>

----------------------------------------------------------------------------
(* Service.StartDownload *)

\* "prefer magnet, fallback to torrent URL"
TorrentURLOf(release) ==
    IF release.MagnetURL # "" THEN release.MagnetURL ELSE release.TorrentURL

\* a start that creates the download without looking at the torrent URL
SvcStartBegin_NoURLCheck(t, libraryItemID, releaseID, limit) ==
    /\ t \in Admitted(Threads, limit)
    /\ LET r == [IdleReq EXCEPT !.op = "svcStart",
                                !.LibraryItemID = libraryItemID,
                                !.ReleaseID = releaseID]
       IN  IF ~ReleaseExists(releaseID)
           THEN /\ req' = [req EXCEPT ![t] = Done(r, NoDownload, "release not found")]
                /\ UNCHANGED downloads
           ELSE /\ Len(downloads) < MaxDownloads
                /\ LET d == NewDownload(Len(downloads) + 1, libraryItemID, releaseID)
                   IN  /\ downloads' = Append(downloads, d)
                       /\ req' = [req EXCEPT ![t] =
                                    [r EXCEPT !.pc = "addTorrent", !.download = d,
                                              !.torrentURL = TorrentURLOf(Releases[releaseID])]]
    /\ UNCHANGED <<config, libraryItems, tasks, mon>>

\* db.First(&release); torrent URL; db.Create(&download)
SvcStartBegin(t, libraryItemID, releaseID, limit) ==
    /\ t \in Admitted(Threads, limit)
    /\ LET r == [IdleReq EXCEPT !.op = "svcStart",
                                !.LibraryItemID = libraryItemID,
                                !.ReleaseID = releaseID]
       IN  IF ~ReleaseExists(releaseID)
           THEN /\ req' = [req EXCEPT ![t] = Done(r, NoDownload, "release not found")]
                /\ UNCHANGED downloads
           ELSE IF TorrentURLOf(Releases[releaseID]) = ""
           THEN /\ req' = [req EXCEPT ![t] = Done(r, NoDownload, "no torrent URL")]
                /\ UNCHANGED downloads
           ELSE /\ Len(downloads) < MaxDownloads
                /\ LET d == NewDownload(Len(downloads) + 1, libraryItemID, releaseID)
                   IN  /\ downloads' = Append(downloads, d)
                       /\ req' = [req EXCEPT ![t] =
                                    [r EXCEPT !.pc = "addTorrent", !.download = d,
                                              !.torrentURL = TorrentURLOf(Releases[releaseID])]]
    /\ UNCHANGED <<config, libraryItems, tasks, mon>>

\* the error path without its db.Save(&download)
SvcStartAddTorrentFails_NoSave(t) ==
    /\ req[t].op = "svcStart" /\ req[t].pc = "addTorrent"
    /\ req' = [req EXCEPT ![t] = Done(req[t], req[t].download, "failed to add torrent")]
    /\ UNCHANGED <<config, libraryItems, downloads, tasks, mon>>

\* qbit.AddTorrent returns an error: the download is saved as failed and the
\* error is returned
SvcStartAddTorrentFails(t) ==
    /\ req[t].op = "svcStart" /\ req[t].pc = "addTorrent"
    /\ LET d == [req[t].download EXCEPT !.Status = "failed",
                                        !.Error = "Failed to add torrent to qBittorrent"]
       IN  /\ downloads' = SaveDownload(d)
           /\ req' = [req EXCEPT ![t] = Done(req[t], d, "failed to add torrent")]
    /\ UNCHANGED <<config, libraryItems, tasks, mon>>

\* qbit.AddTorrent succeeds
SvcStartAddTorrentOK(t) ==
    /\ req[t].op = "svcStart" /\ req[t].pc = "addTorrent"
    /\ req' = [req EXCEPT ![t] = [req[t] EXCEPT !.pc = "saveItem"]]
    /\ UNCHANGED <<config, libraryItems, downloads, tasks, mon>>

\* "Update library item status"; return &download, nil
SvcStartSaveItem(t) ==
    /\ req[t].op = "svcStart" /\ req[t].pc = "saveItem"
    /\ libraryItems' = SetItemStatus(req[t].LibraryItemID, "downloading")
    /\ req' = [req EXCEPT ![t] = Done(req[t], req[t].download, "ok")]
    /\ UNCHANGED <<config, downloads, tasks, mon>>

----------------------------------------------------------------------------
(* Service.CancelDownload *)

\* db.First(&download, downloadID)
SvcCancelBegin(t, downloadID, limit) ==
    /\ t \in Admitted(Threads, limit)
    /\ LET r == [IdleReq EXCEPT !.op = "svcCancel"]
       IN  req' = [req EXCEPT ![t] =
                IF downloadID \notin DOMAIN downloads
                THEN Done(r, NoDownload, "download not found")
                ELSE [r EXCEPT !.pc = "saveDownload",
                               !.LibraryItemID = downloads[downloadID].LibraryItemID,
                               !.download = downloads[downloadID]]]
    /\ UNCHANGED <<config, libraryItems, downloads, tasks, mon>>

\* what qbit.DeleteTorrent returns: nil, or an error (request failed, login
\* failed, status other than 200)
DeleteErrors == {"nil", "error"}

\* qbit.DeleteTorrent is called when a hash is known and answers deleteErr
DeleteCalled(download, deleteErr) ==
    download.QBittorrentHash = "" => deleteErr = "nil"

\* a cancel that returns the daemon's error instead of continuing
SvcCancelSaveDownload_ReturnsError(t, deleteErr) ==
    /\ req[t].op = "svcCancel" /\ req[t].pc = "saveDownload"
    /\ DeleteCalled(req[t].download, deleteErr)
    /\ LET d == [req[t].download EXCEPT !.Status = "failed",
                                        !.Error = "Cancelled by user"]
       IN  IF deleteErr = "nil"
           THEN /\ downloads' = SaveDownload(d)
                /\ req' = [req EXCEPT ![t] = [req[t] EXCEPT !.pc = "saveItem", !.download = d,
                                                            !.deleteErr = deleteErr]]
           ELSE /\ downloads' = downloads
                /\ req' = [req EXCEPT ![t] = [Done(req[t], req[t].download, "failed to delete torrent")
                                                 EXCEPT !.deleteErr = deleteErr]]
    /\ UNCHANGED <<config, libraryItems, tasks, mon>>

\* qbit.DeleteTorrent when a hash is known (its error is kept in err and then
\* overwritten: "Log error but continue"), then download.Status = failed;
\* download.Error = "Cancelled by user"; db.Save
SvcCancelSaveDownload(t, deleteErr) ==
    /\ req[t].op = "svcCancel" /\ req[t].pc = "saveDownload"
    /\ DeleteCalled(req[t].download, deleteErr)
    /\ LET d == [req[t].download EXCEPT !.Status = "failed",
                                        !.Error = "Cancelled by user"]
       IN  /\ downloads' = SaveDownload(d)
           /\ req' = [req EXCEPT ![t] = [req[t] EXCEPT !.pc = "saveItem", !.download = d,
                                                       !.deleteErr = deleteErr]]
    /\ UNCHANGED <<config, libraryItems, tasks, mon>>

\* library item to wanted; return nil
SvcCancelSaveItem(t) ==
    /\ req[t].op = "svcCancel" /\ req[t].pc = "saveItem"
    /\ libraryItems' = SetItemStatus(req[t].download.LibraryItemID, "wanted")
    /\ req' = [req EXCEPT ![t] = [Done(req[t], req[t].download, "ok")
                                     EXCEPT !.deleteErr = req[t].deleteErr]]
    /\ UNCHANGED <<config, downloads, tasks, mon>>

\* the caller has taken the answer
Return(t) ==
    /\ req[t].pc = "done"
    /\ req' = [req EXCEPT ![t] = IdleReq]
    /\ UNCHANGED <<config, libraryItems, downloads, tasks, mon>>

----------------------------------------------------------------------------
(* Service.UpdateDownloadStatus, the part after a successful GetTorrentInfo *)

\* the switch with "stalledUP" listed in the first case
StatusForState_StalledUP(state, status) ==
    CASE state \in {"downloading", "stalledDL", "queuedDL", "stalledUP"} -> "downloading"
      [] state \in {"uploading", "queuedUP"}                            -> "completed"
      [] state = "error"                                                -> "failed"
      [] state \in {"pausedDL", "pausedUP"}                             -> "paused"
      [] state = "missingFiles"                                         -> "failed"
      [] OTHER                                                          -> status

\* "switch torrent.State": the status the download gets
StatusForState(state, status) ==
    CASE state \in {"downloading", "stalledDL", "queuedDL"} -> "downloading"
      [] state \in {"uploading", "stalledUP", "queuedUP"}   -> "completed"
      [] state = "error"                                    -> "failed"
      [] state \in {"pausedDL", "pausedUP"}                 -> "paused"
      [] state = "missingFiles"                             -> "failed"
      [] OTHER                                              -> status

\* download.Error after the switch
ErrorForState(state, error) ==
    CASE state = "error"        -> "qBittorrent reported error state"
      [] state = "missingFiles" -> "Missing files"
      [] OTHER                  -> error

\* download.Progress = torrent.Progress * 100 (tenths of the 0-1 fraction to 0-100)
ProgressOf(torrent) == torrent.Progress * 10

\* the states "switch torrent.State" has a case for
SwitchStates ==
    {"downloading", "stalledDL", "queuedDL", "uploading", "stalledUP", "queuedUP",
     "error", "pausedDL", "pausedUP", "missingFiles"}

\* an update that leaves the copy alone when the state has no case
ApplyTorrent_SkipsUnknownState(d, torrent) ==
    IF torrent.State \notin SwitchStates THEN d
    ELSE
    [d EXCEPT !.Progress = ProgressOf(torrent),
              !.Speed = torrent.DownloadSpeed,
              !.Size = torrent.Size,
              !.Downloaded = torrent.Downloaded,
              !.Status = StatusForState(torrent.State, d.Status),
              !.CompletedAt = IF torrent.State \in {"uploading", "stalledUP", "queuedUP"}
                              THEN "set" ELSE d.CompletedAt,
              !.Error = ErrorForState(torrent.State, d.Error),
              !.DownloadPath = IF torrent.ContentPath # ""
                               THEN torrent.ContentPath ELSE d.DownloadPath]

\* the copy of the download after the update, as it is saved
ApplyTorrent(d, torrent) ==
    [d EXCEPT !.Progress = ProgressOf(torrent),
              !.Speed = torrent.DownloadSpeed,
              !.Size = torrent.Size,
              !.Downloaded = torrent.Downloaded,
              !.Status = StatusForState(torrent.State, d.Status),
              !.CompletedAt = IF torrent.State \in {"uploading", "stalledUP", "queuedUP"}
                              THEN "set" ELSE d.CompletedAt,
              !.Error = ErrorForState(torrent.State, d.Error),
              !.DownloadPath = IF torrent.ContentPath # ""
                               THEN torrent.ContentPath ELSE d.DownloadPath]

----------------------------------------------------------------------------
(* Service.MonitorDownloads: one poll cycle of poller p *)

RECURSIVE SelectActive(_)
SelectActive(ds) ==
    IF ds = <<>> THEN <<>>
    ELSE IF IsActive(Head(ds)) THEN <<Head(ds)>> \o SelectActive(Tail(ds))
    ELSE SelectActive(Tail(ds))

\* "for i := range downloads": move to the next copy, or return nil
NextDownload(m) ==
    IF m.i + 1 > Len(m.downloads)
    THEN [m EXCEPT !.pc = "done", !.i = Len(m.downloads) + 1]
    ELSE [m EXCEPT !.pc = "loop", !.i = m.i + 1]

\* db.Where("status IN ?", {queued, downloading}).Find(&downloads)
MonitorBegin(p, limit) ==
    /\ p \in Admitted(Pollers, limit)
    /\ mon' = [mon EXCEPT ![p] =
                 NextDownload([IdleMon EXCEPT !.downloads = SelectActive(downloads)])]
    /\ UNCHANGED <<config, libraryItems, downloads, tasks, req>>

\* UpdateDownloadStatus: no hash on the copy, "return nil" without a query
UpdateUntracked(p) ==
    /\ mon[p].pc = "loop"
    /\ mon[p].downloads[mon[p].i].QBittorrentHash = ""
    /\ mon' = [mon EXCEPT ![p] = NextDownload(mon[p])]
    /\ UNCHANGED <<config, libraryItems, downloads, tasks, req>>

\* the failed query that marks the download failed
UpdateQueryFails_MarksFailed(p) ==
    /\ mon[p].pc = "loop"
    /\ mon[p].downloads[mon[p].i].QBittorrentHash # ""
    /\ downloads' = SaveDownload([mon[p].downloads[mon[p].i] EXCEPT !.Status = "failed"])
    /\ mon' = [mon EXCEPT ![p] = NextDownload(mon[p])]
    /\ UNCHANGED <<config, libraryItems, tasks, req>>

\* the failed query that ends the cycle instead of continuing
UpdateQueryFails_EndsCycle(p) ==
    /\ mon[p].pc = "loop"
    /\ mon[p].downloads[mon[p].i].QBittorrentHash # ""
    /\ mon' = [mon EXCEPT ![p] = [mon[p] EXCEPT !.pc = "done"]]
    /\ UNCHANGED <<config, libraryItems, downloads, tasks, req>>

\* UpdateDownloadStatus: GetTorrentInfo fails; MonitorDownloads continues
UpdateQueryFails(p) ==
    /\ mon[p].pc = "loop"
    /\ mon[p].downloads[mon[p].i].QBittorrentHash # ""
    /\ mon' = [mon EXCEPT ![p] = NextDownload(mon[p])]
    /\ UNCHANGED <<config, libraryItems, downloads, tasks, req>>

\* UpdateDownloadStatus: GetTorrentInfo answers torrent
UpdateQueryOK(p, torrent) ==
    /\ mon[p].pc = "loop"
    /\ mon[p].downloads[mon[p].i].QBittorrentHash # ""
    /\ mon' = [mon EXCEPT ![p] = [mon[p] EXCEPT !.pc = "save", !.torrent = torrent]]
    /\ UNCHANGED <<config, libraryItems, downloads, tasks, req>>

\* UpdateDownloadStatus: the copy is updated from the answer and saved;
\* MonitorDownloads hands a completed copy to triggerProcessing
UpdateSave(p) ==
    /\ mon[p].pc = "save"
    /\ LET d == ApplyTorrent(mon[p].downloads[mon[p].i], mon[p].torrent)
           m == [mon[p] EXCEPT !.downloads[mon[p].i] = d, !.torrent = NoTorrent]
       IN  /\ downloads' = SaveDownload(d)
           /\ mon' = [mon EXCEPT ![p] =
                        IF d.Status = "completed"
                        THEN [m EXCEPT !.pc = "trigger"]
                        ELSE NextDownload(m)]
    /\ UNCHANGED <<config, libraryItems, tasks, req>>

\* triggerProcessing: "Check if processing task already exists"
TriggerCheck(p) ==
    /\ mon[p].pc = "trigger"
    /\ mon' = [mon EXCEPT ![p] =
                 IF ExistingTask(mon[p].downloads[mon[p].i].ID)
                 THEN NextDownload(mon[p])
                 ELSE [mon[p] EXCEPT !.pc = "createTask"]]
    /\ UNCHANGED <<config, libraryItems, downloads, tasks, req>>

\* triggerProcessing: db.Create(&task)
TriggerCreate(p) ==
    /\ mon[p].pc = "createTask"
    /\ tasks' = Append(tasks, NewTask(Len(tasks) + 1, mon[p].downloads[mon[p].i]))
    /\ mon' = [mon EXCEPT ![p] = [mon[p] EXCEPT !.pc = "saveItem"]]
    /\ UNCHANGED <<config, libraryItems, downloads, req>>

\* triggerProcessing: db.Create(&task) returns an error, "return"
TriggerCreateFails(p) ==
    /\ mon[p].pc = "createTask"
    /\ mon' = [mon EXCEPT ![p] = NextDownload(mon[p])]
    /\ UNCHANGED <<config, libraryItems, downloads, tasks, req>>

\* triggerProcessing: library item to processing
TriggerSaveItem(p) ==
    /\ mon[p].pc = "saveItem"
    /\ libraryItems' = SetItemStatus(mon[p].downloads[mon[p].i].LibraryItemID, "processing")
    /\ mon' = [mon EXCEPT ![p] = NextDownload(mon[p])]
    /\ UNCHANGED <<config, downloads, tasks, req>>

\* MonitorDownloads has returned; the loop waits for its next tick
MonitorReturn(p) ==
    /\ mon[p].pc = "done"
    /\ mon' = [mon EXCEPT ![p] = IdleMon]
    /\ UNCHANGED <<config, libraryItems, downloads, tasks, req>>

----------------------------------------------------------------------------
(* The requests each operation accepts in the current store *)

\* Server.startDownload answers 201: both rows exist and the work has no
\* queued or downloading download
ApiStartAccepts(libraryItemID, releaseID) ==
    /\ startDownload(libraryItemID, releaseID).pc = "check"
    /\ ~HasActiveDownload(libraryItemID)

\* Service.StartDownload gets as far as the daemon: the release exists and
\* has a magnet or torrent URL
SvcStartAccepts(libraryItemID, releaseID) ==
    /\ ReleaseExists(releaseID)
    /\ TorrentURLOf(Releases[releaseID]) # ""

\* Server.cancelDownload answers 204: the download exists and is queued or
\* downloading
ApiCancelAccepts(downloadID) == cancelDownload(downloadID).pc = "saveDownload"

\* Service.CancelDownload returns nil: the download exists
SvcCancelAccepts(downloadID) == downloadID \in DOMAIN downloads

----------------------------------------------------------------------------
(* The gin router as Server.setupRoutes builds it, and auth.APIKeyMiddleware *)

HealthRoute == [Method |-> "GET", Path |-> "/api/health"]
StartRoute == [Method |-> "POST", Path |-> "/api/v1/downloads"]
CancelRoute == [Method |-> "DELETE", Path |-> "/api/v1/downloads/:id"]
Routes == {HealthRoute, StartRoute, CancelRoute}

\* the values a request may carry as X-API-Key header or apikey parameter
\* ("" when it carries none), and the configurations of config.Auth
APIKeys == {"", "secret", "other"}
Configs == [Enabled : BOOLEAN, APIKey : {"", "secret"}]
DefaultConfig == [Enabled |-> TRUE, APIKey |-> "secret"]

\* the middleware that compares nothing: any non-empty key passes
APIKeyMiddleware_AnyKey(validAPIKey, path, header, query) ==
    IF path = "/api/health" THEN TRUE
    ELSE LET apiKey == IF header = "" THEN query ELSE header
         IN  ~(apiKey = "")

\* auth.APIKeyMiddleware(validAPIKey): TRUE when the chain goes on (c.Next()),
\* FALSE when the request is answered 401 and aborted
APIKeyMiddleware(validAPIKey, path, header, query) ==
    IF path = "/api/health" THEN TRUE
    ELSE LET apiKey == IF header = "" THEN query ELSE header
         IN  ~(apiKey = "" \/ apiKey # validAPIKey)

\* router.Use applies to the routes registered after it (not to the health
\* route), and only "if s.config.Auth.Enabled && s.config.Auth.APIKey != """
UsesMiddleware(route) ==
    route # HealthRoute /\ config.Enabled /\ config.APIKey # ""

\* Server.healthCheck
healthCheck == Done([IdleReq EXCEPT !.op = "healthCheck"], NoDownload, "OK")

\* c.JSON(http.StatusUnauthorized, ...); c.Abort(): no handler is entered
Unauthorized == Done(IdleReq, NoDownload, "Unauthorized")

\* the handler registered for the route, entered with the request's parameters
Handler(route, id, releaseID) ==
    CASE route = HealthRoute -> healthCheck
      [] route = StartRoute  -> startDownload(id, releaseID)
      [] route = CancelRoute -> cancelDownload(id)

\* a request is routed through its handler chain
ServeHTTP(t, route, header, query, id, releaseID, limit) ==
    /\ t \in Admitted(Threads, limit)
    /\ LET r == IF /\ UsesMiddleware(route)
                   /\ ~APIKeyMiddleware(config.APIKey, route.Path, header, query)
                THEN Unauthorized
                ELSE Handler(route, id, releaseID)
       IN  req' = [req EXCEPT ![t] =
                     [r EXCEPT !.route = route, !.header = header, !.query = query]]
    /\ UNCHANGED <<config, libraryItems, downloads, tasks, mon>>

----------------------------------------------------------------------------
(* Specifications *)

\* a caller or a poll cycle starts while fewer than limit operations are in
\* flight; requests name a work of works, or no work, and a release of releases
Begin(works, releases, limit) ==
    \/ \E t \in Threads, i \in works \cup (ItemInputs \ LibraryItemIDs), r \in releases :
          ApiStartBegin(t, i, r, limit)
    \/ \E t \in Threads, d \in 1 .. MaxDownloads : ApiCancelBegin(t, d, limit)
    \/ \E t \in Threads, i \in works, r \in releases : SvcStartBegin(t, i, r, limit)
    \/ \E t \in Threads, d \in 1 .. MaxDownloads : SvcCancelBegin(t, d, limit)
    \/ \E p \in Pollers : MonitorBegin(p, limit)

\* a poll cycle makes its next call; the daemon answers a status query with a
\* TorrentInfo of answers
PollStep(answers) ==
    \E p \in Pollers :
        \/ UpdateUntracked(p) \/ UpdateQueryFails(p)
        \/ \E torrent \in answers : UpdateQueryOK(p, torrent)
        \/ UpdateSave(p)
        \/ TriggerCheck(p) \/ TriggerCreate(p) \/ TriggerSaveItem(p)
        \/ MonitorReturn(p)

\* a caller or a poll cycle makes its next call
Step(answers) ==
    \/ \E t \in Threads :
          \/ ApiStartCheck(t) \/ ApiStartCreate(t) \/ ApiStartSaveItem(t)
          \/ ApiCancelSaveDownload(t) \/ ApiCancelSaveItem(t)
          \/ SvcStartAddTorrentFails(t) \/ SvcStartAddTorrentOK(t) \/ SvcStartSaveItem(t)
          \/ \E deleteErr \in DeleteErrors : SvcCancelSaveDownload(t, deleteErr)
          \/ SvcCancelSaveItem(t)
          \/ Return(t)
    \/ PollStep(answers)

\* a database write fails
Fault == \E p \in Pollers : TriggerCreateFails(p)

\* Handlers and poll cycles interleave between their calls, contending for
\* one work.
Init == config = DefaultConfig /\ InitOn(ContendedWorks)

Next == Begin(ContendedWorks, ContendedReleases, MaxInFlight) \/ Step(ContendedAnswers) \/ Fault

Spec == Init /\ [][Next]_vars

\* One operation at a time, each run to its end, on a database that accepts
\* every write; any work of the library.
InitSerial == config = DefaultConfig /\ InitOn(LibraryItemIDs)

NextSerial == Begin(LibraryItemIDs, ReleaseInputs, 1) \/ Step(TorrentInfos)

SpecSerial == InitSerial /\ [][NextSerial]_vars

\* a retry request arrives for a task id (the last one names no task)
RetryBegin(limit) ==
    \E t \in Threads, id \in 1 .. (MaxDownloads + 1) : ApiRetryBegin(t, id, limit)

RetryStep == \E t \in Threads : ApiRetrySave(t)

\* One operation at a time on a store that holds a processing task: the
\* download operations, the poll cycle and the retry handler.
InitProcessing == config = DefaultConfig /\ InitTasks

NextProcessing ==
    \/ Begin(LibraryItemIDs, ContendedReleases, 1)
    \/ RetryBegin(1)
    \/ Step(ContendedAnswers)
    \/ RetryStep

SpecProcessing == InitProcessing /\ [][NextProcessing]_vars

\* every work has been started: its item is downloading and it has a queued
\* download, tracked (seeded with a hash) or as StartDownload leaves it
InitStarted ==
    /\ \E S \in SUBSET LibraryItemIDs :
          downloads = [k \in LibraryItemIDs |->
                         IF k \in S
                         THEN TrackedDownloads(LibraryItemIDs, 1)[k]
                         ELSE NewDownload(k, k, 1)]
    /\ libraryItems = [i \in LibraryItemIDs |->
                         [NewLibraryItem(i) EXCEPT !.Status = "downloading"]]
    /\ tasks = <<>>
    /\ req = [t \in Threads |-> IdleReq]
    /\ mon = [p \in Pollers |-> IdleMon]

InitLive == config = DefaultConfig /\ InitStarted

\* The poll loop alone on a library whose works have been started, one cycle
\* at a time: a cycle under way always makes its next call, a new cycle is
\* always started, and the daemon, asked again and again about a download,
\* eventually reports it complete.
NextLive == (\E p \in Pollers : MonitorBegin(p, 1)) \/ PollStep(TorrentInfos)

Fairness ==
    /\ WF_vars(PollStep(TorrentInfos))
    /\ WF_vars(\E p \in Pollers : MonitorBegin(p, 1))
    /\ SF_vars(\E p \in Pollers, torrent \in TorrentInfos :
                  torrent.State = "uploading" /\ UpdateQueryOK(p, torrent))

SpecLive == InitLive /\ [][NextLive]_vars /\ Fairness

\* Requests to add books and to remove items, overlapping.
LibraryBegin(limit) ==
    \/ \E t \in Threads, b \in BookIDs : AddToLibraryTx(t, b, limit)
    \/ \E t \in Threads, b \in BookIDs : AddToLibraryTxFails(t, b, limit)
    \/ \E t \in Threads, i \in 1 .. MaxLibraryItems : RemoveFromLibraryBegin(t, i, limit)

LibraryStep ==
    \E t \in Threads :
        \/ AddToLibraryReload(t) \/ RemoveFromLibraryDelete(t) \/ Return(t)

InitLibrary ==
    /\ config = DefaultConfig
    /\ \E n \in 0 .. Cardinality(LibraryItemIDs) :
          libraryItems = [i \in 1 .. n |-> NewLibraryItem(i)]
    /\ downloads = <<>>
    /\ tasks = <<>>
    /\ req = [t \in Threads |-> IdleReq]
    /\ mon = [p \in Pollers |-> IdleMon]

NextLibrary == LibraryBegin(MaxInFlight) \/ LibraryStep

SpecLibrary == InitLibrary /\ [][NextLibrary]_vars

\* Removals and poll cycles, one at a time, on a library whose works have
\* been started.
RemoveBegin(limit) ==
    \/ \E t \in Threads, i \in ItemInputs : RemoveFromLibraryBegin(t, i, limit)
    \/ \E p \in Pollers : MonitorBegin(p, limit)

RemoveStep ==
    \/ \E t \in Threads : RemoveFromLibraryDelete(t) \/ Return(t)
    \/ PollStep(ContendedAnswers)

InitRemove == config = DefaultConfig /\ InitStarted

NextRemove == RemoveBegin(1) \/ RemoveStep

SpecRemove == InitRemove /\ [][NextRemove]_vars

\* HTTP requests, one at a time, through the router of a server built with
\* any configuration of config.Auth.
RestStep ==
    \E t \in Threads :
        \/ ApiStartCheck(t) \/ ApiStartCreate(t) \/ ApiStartSaveItem(t)
        \/ ApiCancelSaveDownload(t) \/ ApiCancelSaveItem(t)
        \/ Return(t)

InitAuth == config \in Configs /\ InitOn(ContendedWorks)

NextAuth ==
    \/ \E t \in Threads, route \in Routes, header \in APIKeys, query \in APIKeys,
          id \in ItemInputs, r \in ContendedReleases :
          ServeHTTP(t, route, header, query, id, r, 1)
    \/ RestStep

SpecAuth == InitAuth /\ [][NextAuth]_vars

----------------------------------------------------------------------------
(* Properties *)

NonTerminal(d) == d.Status \in {"queued", "downloading", "paused"}

TasksOf(downloadID) == {j \in DOMAIN tasks : tasks[j].DownloadID = downloadID}

\* C1: in every reachable state each LibraryItem has at most one Download
\* whose status is queued, downloading or paused.
C1_AtMostOneNonTerminalDownload ==
    \A i \in LibraryItemIDs :
        Cardinality({k \in DOMAIN downloads :
                        downloads[k].LibraryItemID = i /\ NonTerminal(downloads[k])}) <= 1

\* C2: of two start requests for the same work that run at once, only one
\* gets past the check and creates a Download; the other is answered Conflict.
\* (Two requests that are both between their db.Create and their answer have
\* both created one.)
C2_OneOfTwoConcurrentStartsSucceeds ==
    \A t1, t2 \in Threads :
        (/\ t1 # t2
         /\ req[t1].op = "apiStart" /\ req[t2].op = "apiStart"
         /\ req[t1].LibraryItemID = req[t2].LibraryItemID
         /\ req[t1].pc = "saveItem")
        => req[t2].pc # "saveItem"

\* C3: a start request for a work that has a Download in a non-terminal
\* status creates no Download (it is rejected and mutates nothing): no step
\* adds a Download for a work that has a non-terminal one.
C3_StartRejectedWhileNonTerminal ==
    [][Len(downloads') > Len(downloads) =>
          ~ \E k \in DOMAIN downloads :
                /\ downloads[k].LibraryItemID = downloads'[Len(downloads')].LibraryItemID
                /\ NonTerminal(downloads[k])]_vars

\* C4: when the daemon's add-torrent call fails in StartDownload, the call
\* returns the error at once (no second registration), the Download of the
\* attempt is failed with the error recorded, and no LibraryItem changes.
C4_AddTorrentFailure ==
    /\ [](\A t \in Threads :
            (req[t].op = "svcStart" /\ req[t].pc = "done"
                /\ req[t].result = "failed to add torrent")
            => /\ downloads[req[t].download.ID].Status = "failed"
               /\ downloads[req[t].download.ID].Error # "")
    /\ [][\A t \in Threads :
            (req[t].pc = "addTorrent" /\ req'[t].result = "failed to add torrent")
            => /\ req'[t].pc = "done"
               /\ libraryItems' = libraryItems]_vars

C4_Witness ==
    \E t \in Threads :
        /\ req[t].op = "svcStart" /\ req[t].pc = "done"
        /\ req[t].result = "failed to add torrent"
        /\ libraryItems[req[t].LibraryItemID].Status = "wanted"

\* C5: every Download of a successful StartDownload is tracked by the poll
\* loop: its daemon handle is recorded, so that every Download a poll cycle
\* examines is queried at the daemon.
C5_StartedDownloadIsTracked ==
    /\ \A t \in Threads :
          (req[t].op = "svcStart" /\ req[t].pc = "done" /\ req[t].result = "ok")
          => downloads[req[t].download.ID].QBittorrentHash # ""
    /\ \A p \in Pollers :
          mon[p].pc = "done"
          => \A i \in DOMAIN mon[p].downloads : mon[p].downloads[i].QBittorrentHash # ""

C7_ExactlyOneTaskPerCompletedDownload ==
    \A k \in DOMAIN downloads :
        downloads[k].Status = "completed"
        => /\ Cardinality(TasksOf(k)) <= 1
           /\ (\A p \in Pollers : mon[p].pc = "idle") => Cardinality(TasksOf(k)) = 1

\* the daemon states that start with "paused"
PausedStates == {"pausedDL", "pausedUP"}

\* C8: the save that follows a successful query leaves the Download
\* downloading for "downloading", "queuedDL", "stalledDL"; completed for
\* "uploading", "queuedUP", "stalledUP"; failed for "error", "missingFiles";
\* paused for every state that starts with "paused".
C8_DaemonStateMapping ==
    [][\A p \in Pollers :
          (mon[p].pc = "save" /\ mon'[p].pc # "save")
          => LET state  == mon[p].torrent.State
                 status == downloads'[mon[p].downloads[mon[p].i].ID].Status
             IN  /\ state \in {"downloading", "queuedDL", "stalledDL"} => status = "downloading"
                 /\ state \in {"uploading", "queuedUP", "stalledUP"} => status = "completed"
                 /\ state \in {"error", "missingFiles"} => status = "failed"
                 /\ state \in PausedStates => status = "paused"]_vars

C8_Witness ==
    /\ \E k \in DOMAIN downloads : downloads[k].Status = "paused"
    /\ \E k \in DOMAIN downloads : downloads[k].Status = "completed"

\* C9: while a Download stays downloading, its stored Progress never
\* decreases, whatever the daemon reports.
C9_ProgressNeverDecreases ==
    [][\A k \in DOMAIN downloads :
          (downloads[k].Status = "downloading" /\ downloads'[k].Status = "downloading")
          => downloads'[k].Progress >= downloads[k].Progress]_vars

\* C10: when a poll cycle has marked a Download failed because the daemon
\* reported an error state, the owning LibraryItem's status is error.
C10_FailureMarksItemError ==
    \A p \in Pollers :
        mon[p].pc = "done"
        => \A i \in DOMAIN mon[p].downloads :
              mon[p].downloads[i].Status = "failed"
              => libraryItems[mon[p].downloads[i].LibraryItemID].Status = "error"

\* C11: once a work has been handed to processing (and, with that, once it
\* has been started at all), it eventually becomes available: its task
\* completes and the item gets the output path, a completion date and status
\* available.
C11_StartedWorkBecomesAvailable ==
    \A i \in LibraryItemIDs :
        (libraryItems[i].Status = "processing") ~> (libraryItems[i].Status = "available")

\* C12: a cancel request (REST or service) for the non-terminal Download of a
\* work whose status is downloading is accepted: it goes on to mark the
\* Download failed and the work wanted.
C12_CancelWhileDownloadingAccepted ==
    [][\A t \in Threads :
          (/\ req[t].pc = "idle"
           /\ req'[t].op \in {"apiCancel", "svcCancel"}
           /\ req'[t].download.ID \in DOMAIN downloads
           /\ NonTerminal(downloads[req'[t].download.ID])
           /\ libraryItems[downloads[req'[t].download.ID].LibraryItemID].Status = "downloading")
          => req'[t].pc = "saveDownload"]_vars

\* C13: a cancel request (REST or service) for the completed Download of a
\* work whose status is processing is answered Conflict at once, without any
\* write.
C13_CancelWhileProcessingRejected ==
    [][\A t \in Threads :
          (/\ req[t].pc = "idle"
           /\ req'[t].op \in {"apiCancel", "svcCancel"}
           /\ req'[t].download.ID \in DOMAIN downloads
           /\ downloads[req'[t].download.ID].Status = "completed"
           /\ libraryItems[downloads[req'[t].download.ID].LibraryItemID].Status = "processing")
          => /\ req'[t].pc = "done" /\ req'[t].result = "Conflict"
             /\ UNCHANGED <<libraryItems, downloads, tasks>>]_vars

\* C14: a retry request for a failed ProcessingTask is accepted, and its save
\* leaves that same task pending with Progress 0, Error empty and both
\* timestamps cleared, every other column and every other row as they were,
\* and the same number of tasks for the Download.
C14_RetryResetsFailedTask ==
    [][\A t \in Threads :
          /\ (/\ req[t].pc = "idle" /\ req'[t].op = "apiRetry"
              /\ req'[t].task.ID \in DOMAIN tasks
              /\ tasks[req'[t].task.ID].Status = "failed")
             => req'[t].pc = "saveTask"
          /\ (req[t].op = "apiRetry" /\ req[t].pc = "saveTask" /\ req'[t].pc = "done")
             => LET id == req[t].task.ID
                IN  /\ req'[t].result = "OK"
                    /\ Len(tasks') = Len(tasks)
                    /\ \A j \in DOMAIN tasks : j # id => tasks'[j] = tasks[j]
                    /\ tasks'[id] = [tasks[id] EXCEPT !.Status = "pending", !.Progress = 0,
                                                      !.Error = "", !.StartedAt = "nil",
                                                      !.CompletedAt = "nil"]]_vars

C14_Witness ==
    \E t \in Threads :
        /\ req[t].op = "apiRetry" /\ req[t].pc = "done" /\ req[t].result = "OK"
        /\ tasks[req[t].task.ID].Status = "pending"
        /\ tasks[req[t].task.ID].Progress = 0
        /\ Cardinality(TasksOf(tasks[req[t].task.ID].DownloadID)) = 1

\* C15: when a retry of a failed ProcessingTask has succeeded, the status of
\* the LibraryItem that owns the task's Download is processing.
C15_RetryReentersProcessing ==
    \A t \in Threads :
        (req[t].op = "apiRetry" /\ req[t].pc = "done" /\ req[t].result = "OK")
        => libraryItems[downloads[tasks[req[t].task.ID].DownloadID].LibraryItemID].Status
              = "processing"

\* C16: a retry request for a ProcessingTask that is pending, processing or
\* completed is rejected at once and writes nothing; and a task that has just
\* been retried is no longer failed, so that a second retry in a row is such
\* a rejected request.
C16_RetryOfNonFailedRejected ==
    /\ [][\A t \in Threads :
            (/\ req[t].pc = "idle" /\ req'[t].op = "apiRetry"
             /\ req'[t].task.ID \in DOMAIN tasks
             /\ tasks[req'[t].task.ID].Status # "failed")
            => /\ req'[t].pc = "done" /\ req'[t].result = "BadRequest"
               /\ UNCHANGED <<libraryItems, downloads, tasks>>]_vars
    /\ [](\A t \in Threads :
            (req[t].op = "apiRetry" /\ req[t].pc = "done" /\ req[t].result = "OK")
            => tasks[req[t].task.ID].Status \in {"pending", "processing", "completed"})

C16_Witness ==
    \E t \in Threads :
        /\ req[t].op = "apiRetry" /\ req[t].pc = "done" /\ req[t].result = "BadRequest"
        /\ tasks[req[t].task.ID].Status = "processing"

\* C17: with authentication enabled and a key configured, a request to an
\* /api/v1 route that carries the key neither as header nor as query
\* parameter is answered 401, enters no handler and changes no record; a
\* request to GET /api/health is served whatever it carries and whatever the
\* configuration.
C17_NoHandlerWithoutAPIKey ==
    [][\A t \in Threads :
          (req[t].pc = "idle" /\ req'[t].pc # "idle")
          => /\ (/\ config.Enabled /\ config.APIKey # ""
                 /\ req'[t].route # HealthRoute
                 /\ req'[t].header # config.APIKey
                 /\ req'[t].query # config.APIKey)
                => /\ req'[t].result = "Unauthorized"
                   /\ req'[t].op = "none" /\ req'[t].pc = "done"
                   /\ UNCHANGED <<libraryItems, downloads, tasks>>
             /\ req'[t].route = HealthRoute
                => req'[t].op = "healthCheck" /\ req'[t].result = "OK"]_vars

C17_Witness ==
    /\ config.Enabled /\ config.APIKey # ""
    /\ \E t \in Threads :
          /\ req[t].result = "Unauthorized"
          /\ req[t].route = StartRoute
          /\ req[t].header = "other" /\ req[t].query = ""

\* C18: each Book has at most one LibraryItem that is not deleted, and a
\* request to add a book that has one is answered Conflict and creates none.
C18_OneItemPerBook ==
    /\ [](\A b \in BookIDs :
            Cardinality({k \in DOMAIN libraryItems :
                            /\ libraryItems[k].BookID = b
                            /\ libraryItems[k].DeletedAt = "nil"}) <= 1)
    /\ [][\A t \in Threads :
            (/\ req[t].pc = "idle" /\ req'[t].op = "addToLibrary"
             /\ \E k \in DOMAIN libraryItems :
                   /\ libraryItems[k].BookID = req'[t].BookID
                   /\ libraryItems[k].DeletedAt = "nil")
            => /\ req'[t].result = "Conflict"
               /\ libraryItems' = libraryItems]_vars

C18_Witness ==
    /\ \E t \in Threads : req[t].op = "addToLibrary" /\ req[t].result = "Conflict"
    /\ \E j, k \in DOMAIN libraryItems :
          /\ libraryItems[j].BookID = libraryItems[k].BookID
          /\ libraryItems[j].DeletedAt = "set" /\ libraryItems[k].DeletedAt = "nil"

\* C19: no step changes the status of a Download that is completed or failed.
C19_TerminalDownloadStatusIsFinal ==
    [][\A k \in DOMAIN downloads :
          downloads[k].Status \in {"completed", "failed"}
          => downloads'[k].Status = downloads[k].Status]_vars

\* C20: a poll whose daemon call fails (the cycle moves on without a save)
\* leaves every LibraryItem, Download and ProcessingTask as it was, and the
\* Download is among those the next cycle selects.
C20_FailedPollChangesNothing ==
    [][\A p \in Pollers :
          (/\ mon[p].pc = "loop"
           /\ mon[p].downloads[mon[p].i].QBittorrentHash # ""
           /\ mon'[p] # mon[p] /\ mon'[p].pc # "save")
          => /\ UNCHANGED <<libraryItems, downloads, tasks>>
             /\ \E j \in DOMAIN SelectActive(downloads') :
                   SelectActive(downloads')[j].ID = mon[p].downloads[mon[p].i].ID]_vars

C20_Witness ==
    \E p \in Pollers :
        /\ mon[p].pc = "done"
        /\ \E i \in DOMAIN mon[p].downloads :
              /\ mon[p].downloads[i].QBittorrentHash # ""
              /\ mon[p].downloads[i].Progress = 0
              /\ downloads[mon[p].downloads[i].ID] = mon[p].downloads[i]
              /\ IsActive(downloads[mon[p].downloads[i].ID])

\* the edges of the LibraryItem status machine
StatusEdges ==
    { <<"wanted", "downloading">>, <<"downloading", "processing">>,
      <<"processing", "available">>, <<"downloading", "error">>,
      <<"processing", "error">>, <<"downloading", "wanted">>,
      <<"error", "processing">> }

\* C21: every step that changes a LibraryItem's status takes one of the edges
\* wanted->downloading, downloading->processing, processing->available,
\* downloading/processing->error, downloading->wanted, error->processing.
C21_StatusChangesFollowEdges ==
    [][\A i \in DOMAIN libraryItems :
          libraryItems'[i].Status # libraryItems[i].Status
          => <<libraryItems[i].Status, libraryItems'[i].Status>> \in StatusEdges]_vars

\* C22: the Downloads a poll cycle selects when it begins include every
\* Download in a non-terminal status (queued, downloading or paused).
C22_PollExaminesEveryNonTerminalDownload ==
    [][\A p \in Pollers :
          (mon[p].pc = "idle" /\ mon'[p].pc # "idle")
          => \A k \in DOMAIN downloads :
                NonTerminal(downloads[k])
                => \E j \in DOMAIN mon'[p].downloads : mon'[p].downloads[j].ID = k]_vars

\* C23: a failed Download stays failed; a REST start for a work whose
\* Downloads have all failed is not rejected; and a step that adds a Download
\* adds it queued and leaves every failed Download as it was.
C23_FailedDownloadNeverReused ==
    [][/\ \A k \in DOMAIN downloads :
             downloads[k].Status = "failed"
             => /\ downloads'[k].Status = "failed"
                /\ Len(downloads') > Len(downloads)
                   => /\ downloads'[k] = downloads[k]
                      /\ downloads'[Len(downloads')].Status = "queued"
       /\ \A t \in Threads :
             (/\ req[t].pc = "idle" /\ req'[t].op = "apiStart"
              /\ ItemExists(req'[t].LibraryItemID) /\ ReleaseExists(req'[t].ReleaseID)
              /\ \A k \in DOMAIN downloads :
                    downloads[k].LibraryItemID = req'[t].LibraryItemID
                    => downloads[k].Status = "failed")
             => req'[t].pc = "check"]_vars

\* C26: in every store in which no operation is under way, the REST start
\* and Service.StartDownload accept the same requests, and the REST cancel
\* and Service.CancelDownload accept the same requests.
C26_RestAndServiceAcceptTheSame ==
    InFlight = {}
    => /\ \A i \in ItemInputs, r \in ReleaseInputs :
             ApiStartAccepts(i, r) <=> SvcStartAccepts(i, r)
       /\ \A d \in 1 .. MaxDownloads :
             ApiCancelAccepts(d) <=> SvcCancelAccepts(d)

\* C27: when no operation is under way, a LibraryItem whose status is wanted
\* has no Download in status queued or downloading.
C27_WantedHasNoActiveDownload ==
    InFlight = {}
    => \A i \in DOMAIN libraryItems :
          libraryItems[i].Status = "wanted" => ~HasActiveDownload(i)

\* C24: whatever the daemon answers to the removal of the torrent, a
\* Service.CancelDownload that found its Download saves it as failed with the
\* error "Cancelled by user", then sets the LibraryItem to wanted and returns
\* nil; the writes are the same when the removal failed as when it succeeded.
C24_CancelIgnoresDaemonError ==
    [][\A t \in Threads :
          /\ (req[t].op = "svcCancel" /\ req[t].pc = "saveDownload" /\ req'[t] # req[t])
             => /\ req'[t].pc = "saveItem"
                /\ downloads' = SaveDownload([req[t].download EXCEPT
                                                 !.Status = "failed",
                                                 !.Error = "Cancelled by user"])
                /\ UNCHANGED <<libraryItems, tasks>>
          /\ (req[t].op = "svcCancel" /\ req[t].pc = "saveItem" /\ req'[t] # req[t])
             => /\ req'[t].pc = "done" /\ req'[t].result = "ok"
                /\ libraryItems' = SetItemStatus(req[t].download.LibraryItemID, "wanted")
                /\ UNCHANGED <<downloads, tasks>>]_vars

\* a cancel has returned nil although the daemon refused to remove the
\* torrent: the Download is failed and its LibraryItem wanted
C24_Witness ==
    \E t \in Threads :
        /\ req[t].op = "svcCancel" /\ req[t].pc = "done"
        /\ req[t].deleteErr = "error" /\ req[t].result = "ok"
        /\ downloads[req[t].download.ID].Status = "failed"
        /\ downloads[req[t].download.ID].Error = "Cancelled by user"
        /\ downloads[req[t].download.ID].QBittorrentHash # ""
        /\ libraryItems[downloads[req[t].download.ID].LibraryItemID].Status = "wanted"

\* C25: a poll cycle goes through its selection entry by entry: a step at
\* one entry writes no other Download, a query that fails (or is not made)
\* writes nothing and moves the cycle to the next entry, and the cycle ends
\* only after its last entry.
C25_FailedQueryDoesNotStopCycle ==
    [][\A p \in Pollers :
          LET m == mon[p]
          IN  /\ (m.pc \notin {"idle", "done"} /\ mon'[p] # m)
                 => \A k \in DOMAIN downloads :
                       k # m.downloads[m.i].ID => downloads'[k] = downloads[k]
              /\ (m.pc = "loop" /\ mon'[p] # m /\ mon'[p].pc # "save")
                 => /\ UNCHANGED <<downloads, libraryItems, tasks>>
                    /\ mon'[p].downloads = m.downloads
                    /\ m.i < Len(m.downloads)
                       => mon'[p].pc = "loop" /\ mon'[p].i = m.i + 1
              /\ (m.pc \notin {"idle", "done"} /\ mon'[p].pc = "done")
                 => m.i = Len(m.downloads)]_vars

\* a cycle has ended in which the query for the first Download failed (the
\* row is as it was selected) and the second Download was completed and
\* handed to processing
C25_Witness ==
    \E p \in Pollers :
        /\ mon[p].pc = "done" /\ Len(mon[p].downloads) = 2
        /\ LET first == mon[p].downloads[1]
               second == mon[p].downloads[2]
           IN  /\ first.QBittorrentHash # "" /\ first.Status = "queued"
               /\ first.Progress = 0 /\ downloads[first.ID] = first
               /\ second.Status = "completed"
               /\ downloads[second.ID].Status = "completed"
               /\ TasksOf(second.ID) # {}

\* C28: when the daemon answers a state the status switch has no case for,
\* the save leaves the Download's status, error and completion time as they
\* were, creates no ProcessingTask and changes no LibraryItem, and still
\* overwrites progress, speed, size and downloaded bytes with the answer.
C28_UnmappedStateKeepsStatus ==
    [][\A p \in Pollers :
          (/\ mon[p].pc = "save" /\ mon'[p] # mon[p]
           /\ mon[p].torrent.State \notin SwitchStates)
          => LET k == mon[p].downloads[mon[p].i].ID
                 torrent == mon[p].torrent
             IN  /\ downloads'[k].Status = downloads[k].Status
                 /\ downloads'[k].Error = downloads[k].Error
                 /\ downloads'[k].CompletedAt = downloads[k].CompletedAt
                 /\ mon'[p].pc \notin {"trigger", "createTask", "saveItem"}
                 /\ UNCHANGED <<tasks, libraryItems>>
                 /\ downloads'[k].Progress = torrent.Progress * 10
                 /\ downloads'[k].Speed = torrent.DownloadSpeed
                 /\ downloads'[k].Size = torrent.Size
                 /\ downloads'[k].Downloaded = torrent.Downloaded]_vars

\* a Download that is still queued, without error or task, and carries the
\* progress, speed, size and bytes of an answer in a state without a case
C28_Witness ==
    \E k \in DOMAIN downloads :
        /\ downloads[k].Status = "queued" /\ downloads[k].Error = ""
        /\ downloads[k].Progress = 40 /\ downloads[k].Speed = DownloadSpeedAt(4)
        /\ downloads[k].Size = TorrentSize /\ downloads[k].Downloaded = DownloadedAt(4)
        /\ TasksOf(k) = {}

\* C29: a Service.StartDownload for a release that does not exist, or for a
\* release with neither magnet nor torrent URL, returns an error at once:
\* it creates no Download, does not go on to the daemon and changes no
\* LibraryItem.
C29_StartWithoutReleaseOrURLFails ==
    [][\A t \in Threads :
          (/\ req[t].pc = "idle" /\ req'[t].op = "svcStart"
           /\ \/ ~ReleaseExists(req'[t].ReleaseID)
              \/ /\ Releases[req'[t].ReleaseID].MagnetURL = ""
                 /\ Releases[req'[t].ReleaseID].TorrentURL = "")
          => /\ req'[t].pc = "done"
             /\ req'[t].result \in {"release not found", "no torrent URL"}
             /\ req'[t].download.ID = 0
             /\ UNCHANGED <<downloads, libraryItems, tasks>>]_vars

\* a start for the release without URL has returned its error; the work is
\* still wanted and has no Download
C29_Witness ==
    \E t \in Threads :
        /\ req[t].op = "svcStart" /\ req[t].pc = "done"
        /\ req[t].result = "no torrent URL"
        /\ Releases[req[t].ReleaseID].MagnetURL = ""
        /\ Releases[req[t].ReleaseID].TorrentURL = ""
        /\ req[t].LibraryItemID \in DOMAIN libraryItems
        /\ libraryItems[req[t].LibraryItemID].Status = "wanted"
        /\ \A k \in DOMAIN downloads : downloads[k].LibraryItemID # req[t].LibraryItemID

\* C30: a removal only sets the DeletedAt of its LibraryItem and leaves
\* every Download and ProcessingTask as it was; no later step changes a
\* removed LibraryItem; a poll cycle still selects the queued and downloading
\* Downloads of removed works, and every Download a finished cycle completed
\* has a ProcessingTask.
C30_RemovalOnlySoftDeletes ==
    [][/\ DOMAIN libraryItems' = DOMAIN libraryItems
       /\ \A i \in DOMAIN libraryItems :
             /\ libraryItems[i].DeletedAt = "set" => libraryItems'[i] = libraryItems[i]
             /\ libraryItems'[i].DeletedAt # libraryItems[i].DeletedAt
                => /\ libraryItems' = [libraryItems EXCEPT ![i].DeletedAt = "set"]
                   /\ UNCHANGED <<downloads, tasks>>
       /\ \A t \in Threads :
             (req'[t].op = "removeFromLibrary" /\ req'[t] # req[t])
             => UNCHANGED <<downloads, tasks>>
       /\ \A p \in Pollers :
             /\ (mon[p].pc = "idle" /\ mon'[p].pc # "idle")
                => \A k \in DOMAIN downloads :
                      IsActive(downloads[k])
                      => \E j \in DOMAIN mon'[p].downloads : mon'[p].downloads[j].ID = k
             /\ mon'[p].pc = "done"
                => \A j \in DOMAIN mon'[p].downloads :
                      mon'[p].downloads[j].Status = "completed"
                      => \E q \in DOMAIN tasks' :
                            tasks'[q].DownloadID = mon'[p].downloads[j].ID]_vars

\* the Download of a removed work was completed by a poll cycle and has its
\* ProcessingTask, and the removed LibraryItem is still downloading
C30_Witness ==
    \E k \in DOMAIN downloads :
        /\ libraryItems[downloads[k].LibraryItemID].DeletedAt = "set"
        /\ libraryItems[downloads[k].LibraryItemID].Status = "downloading"
        /\ downloads[k].Status = "completed"
        /\ TasksOf(k) # {}

====
